---- MODULE Spec2Model ----
(***************************************************************************)
(* Model of backend/app/model_factory.py: the model-factory system that    *)
(* derives, per entity schema, the variants base, create, update,          *)
(* update_me, table, public and list_public, and of the process-wide       *)
(* ModelFactoryRegistry; and of backend/app/backend_pre_start.py: main()   *)
(* and the retried database probe init().                                  *)
(*                                                                         *)
(* Encoding of Python values:                                              *)
(*   - None is the string "None"; a keyword that Field() was not given is  *)
(*     "Undefined" (default) or its falsy value;                           *)
(*   - an unset length (None) is 0: the code only tests its truthiness;    *)
(*   - a type is [base, opt]; typing.Optional flattens, so                 *)
(*     Optional[Optional[X]] = Optional[X];                                *)
(*   - a dict is a function whose DOMAIN is its key set; the caches        *)
(*     (_base_model, ...) are one function per factory whose DOMAIN is the *)
(*     set of variants whose slot is not None;                             *)
(*   - a class made by create_model carries oid = <<variant, n>>, n the    *)
(*     number of create_model calls made for that slot of that factory:    *)
(*     every call of create_model returns a new class object.              *)
(***************************************************************************)
EXTENDS Integers, Sequences, FiniteSets, TLC

VARIABLES factories, registry, result, pre

vars == <<factories, registry, result, pre>>

\* Most factories constructed in one run of the registry specification.
MaxFactories == 2

Variants == {"base", "create", "update", "update_me", "table", "public", "list_public"}

\* ------------------------------------------------------------------ types

T(b) == [base |-> b, opt |-> FALSE]

Optional(t) == [t EXCEPT !.opt = TRUE]

\* ---------------------------------------------------------- FieldMetadata

\* The keywords FieldMetadata.__init__ accepts.
FieldMetadataParams ==
    {"field_type", "default", "min_length", "max_length", "unique", "index",
     "nullable", "primary_key", "foreign_key", "description",
     "validation_rules", "business_constraints", "ui_hints"}

Kw(kw, k, d) == IF k \in DOMAIN kw THEN kw[k] ELSE d

\* FieldMetadata(**kw): the attributes the derivation reads, with the
\* constructor's defaults for the keywords not given.
FieldMetadata(kw) ==
    [field_type  |-> kw.field_type,
     default     |-> Kw(kw, "default", "None"),
     min_length  |-> Kw(kw, "min_length", 0),
     max_length  |-> Kw(kw, "max_length", 0),
     unique      |-> Kw(kw, "unique", FALSE),
     index       |-> Kw(kw, "index", FALSE),
     nullable    |-> Kw(kw, "nullable", FALSE),
     primary_key |-> Kw(kw, "primary_key", FALSE),
     foreign_key |-> Kw(kw, "foreign_key", "None")]

\* ---------------------------------------------------------------- schemas

\* The keywords each field of UserModelFactory's schema passes.
UserFields ==
    [email           |-> [field_type |-> T("EmailStr"), unique |-> TRUE,
                          index |-> TRUE, max_length |-> 255,
                          description |-> "User's email address"],
     is_active       |-> [field_type |-> T("bool"), default |-> "True"],
     is_superuser    |-> [field_type |-> T("bool"), default |-> "False"],
     full_name       |-> [field_type |-> Optional(T("str")), default |-> "None",
                          max_length |-> 255],
     password        |-> [field_type |-> T("str"), min_length |-> 8,
                          max_length |-> 40],
     hashed_password |-> [field_type |-> T("str")],
     id              |-> [field_type |-> T("UUID"), primary_key |-> TRUE,
                          default_factory |-> "uuid4"]]

\* The keywords each field of ItemModelFactory's schema passes.
ItemFields ==
    [title       |-> [field_type |-> T("str"), min_length |-> 1,
                      max_length |-> 255],
     description |-> [field_type |-> Optional(T("str")), default |-> "None",
                      max_length |-> 255],
     owner_id    |-> [field_type |-> T("UUID"), foreign_key |-> "user.id",
                      nullable |-> FALSE],
     id          |-> [field_type |-> T("UUID"), primary_key |-> TRUE,
                      default_factory |-> "uuid4"]]

\* FieldMetadata keywords of an id field that the constructor accepts.
IdField == [field_type |-> T("UUID"), primary_key |-> TRUE]

\* Schemas a subclass of BaseModelFactory can pass to BaseModelFactory.__init__
\* besides the two above: the User and Item fields with an id that
\* FieldMetadata accepts, the four-field schema {password, hashed_password,
\* id, email}, and a schema without id that has nullable fields.
AccountFields == [n \in DOMAIN UserFields |->
                    IF n = "id" THEN IdField ELSE UserFields[n]]

TaskFields == [n \in DOMAIN ItemFields |->
                    IF n = "id" THEN IdField ELSE ItemFields[n]]

CredentialFields ==
    [n \in {"password", "hashed_password", "id", "email"} |-> AccountFields[n]]

NoteFields ==
    [title    |-> [field_type |-> T("str"), nullable |-> TRUE,
                   default |-> "untitled", max_length |-> 80],
     owner_id |-> [field_type |-> T("UUID"), foreign_key |-> "user.id",
                   nullable |-> TRUE],
     password |-> [field_type |-> T("str"), min_length |-> 8]]

SchemaNames == {"User", "Item", "Account", "Task", "Credential", "Note"}

FieldsOf(name) ==
    CASE name = "User"       -> UserFields
      [] name = "Item"       -> ItemFields
      [] name = "Account"    -> AccountFields
      [] name = "Task"       -> TaskFields
      [] name = "Credential" -> CredentialFields
      [] name = "Note"       -> NoteFields

RelationshipsOf(name) ==
    CASE name \in {"User", "Account"} ->
            [items |-> [type |-> T("List[Item]"),
                        kwargs |-> [back_populates |-> "owner",
                                    cascade_delete |-> TRUE]]]
      [] name \in {"Item", "Task"} ->
            [owner |-> [type |-> Optional(T("User")),
                        kwargs |-> [back_populates |-> "items",
                                    cascade_delete |-> FALSE]]]
      [] OTHER -> [r \in {} |-> 0]

\* Whether every FieldMetadata(...) call of the schema is given only
\* keywords that FieldMetadata.__init__ has; otherwise the call raises
\* TypeError and the factory is not constructed.
Constructible(name) ==
    \A n \in DOMAIN FieldsOf(name) : DOMAIN FieldsOf(name)[n] \subseteq FieldMetadataParams

\* ModelSchema(name, fields, relationships)
ModelSchema(name) ==
    [name          |-> name,
     fields        |-> [n \in DOMAIN FieldsOf(name) |-> FieldMetadata(FieldsOf(name)[n])],
     relationships |-> RelationshipsOf(name)]

\* BaseModelFactory.__init__(schema): the schema and seven empty cache slots.
BaseModelFactory(schema) ==
    [schema |-> schema,
     cache  |-> [v \in {} |-> 0],
     made   |-> [v \in Variants |-> 0]]

ValidSchemas == {n \in SchemaNames : Constructible(n)}

\* ------------------------------------------------------- field derivation

\* sqlmodel.Field() with no keyword given.
Field0 ==
    [default         |-> "Undefined",
     default_factory |-> "None",
     primary_key     |-> FALSE,
     foreign_key     |-> "None",
     nullable        |-> "Undefined",
     min_length      |-> 0,
     max_length      |-> 0,
     unique          |-> FALSE,
     index           |-> FALSE,
     relationship    |-> FALSE,
     back_populates  |-> "None",
     cascade_delete  |-> FALSE]

\* sqlmodel.Relationship(**kwargs)
Relationship(kwargs) ==
    [Field0 EXCEPT !.relationship   = TRUE,
                   !.back_populates = kwargs.back_populates,
                   !.cascade_delete = kwargs.cascade_delete]

\* The branch of _create_field on for_model_type: whether it returns None,
\* the metadata object after it (the update and update_me branches assign
\* metadata.field_type), and field_kwargs at the end of the branch.
VariantBranch(field_name, metadata, for_model_type) ==
    CASE for_model_type = "create" ->
            [excluded |-> FALSE,
             meta     |-> metadata,
             kwargs   |-> IF metadata.nullable /\ field_name # "id"
                          THEN [Field0 EXCEPT !.default = metadata.default]
                          ELSE Field0]
      [] for_model_type = "update" ->
            IF field_name # "id"
            THEN [excluded |-> FALSE,
                  meta     |-> [metadata EXCEPT !.field_type = Optional(@)],
                  kwargs   |-> [Field0 EXCEPT !.default = "None"]]
            ELSE [excluded |-> FALSE, meta |-> metadata, kwargs |-> Field0]
      [] for_model_type = "update_me" ->
            IF field_name \in {"password", "is_superuser"}
            THEN [excluded |-> TRUE, meta |-> metadata, kwargs |-> Field0]
            ELSE [excluded |-> FALSE,
                  meta     |-> [metadata EXCEPT !.field_type = Optional(@)],
                  kwargs   |-> [Field0 EXCEPT !.default = "None"]]
      [] for_model_type = "table" ->
            [excluded |-> FALSE,
             meta     |-> metadata,
             kwargs   |->
                [Field0 EXCEPT
                    !.default_factory = IF field_name = "id" THEN "uuid4" ELSE @,
                    !.primary_key     = IF field_name = "id" THEN TRUE ELSE @,
                    !.foreign_key     = IF metadata.foreign_key # "None"
                                        THEN metadata.foreign_key ELSE @]]
      [] for_model_type = "public" ->
            IF field_name \in {"hashed_password", "password"}
            THEN [excluded |-> TRUE, meta |-> metadata, kwargs |-> Field0]
            ELSE [excluded |-> FALSE, meta |-> metadata, kwargs |-> Field0]
      [] OTHER ->
            [excluded |-> FALSE, meta |-> metadata, kwargs |-> Field0]

\* The standard constraints and the email override that _create_field
\* applies to field_kwargs after the branch.
StandardConstraints(field_name, metadata, for_model_type, kwargs) ==
    [kwargs EXCEPT
        !.min_length = IF metadata.min_length # 0 THEN metadata.min_length ELSE @,
        !.max_length = IF field_name = "email" /\ for_model_type \in {"create", "update"}
                       THEN 255
                       ELSE IF metadata.max_length # 0 THEN metadata.max_length ELSE @,
        !.unique     = IF metadata.unique THEN TRUE ELSE @,
        !.index      = IF metadata.index THEN TRUE ELSE @]

\* The value _create_field returns after branch result b: excluded when it
\* returns None, else info is the Field it returns; meta is the metadata
\* object as the call leaves it.
FieldResult(field_name, metadata, for_model_type, b) ==
    IF b.excluded
    THEN [excluded |-> TRUE, info |-> Field0, meta |-> b.meta]
    ELSE [excluded |-> FALSE,
          info     |-> StandardConstraints(field_name, metadata,
                                           for_model_type, b.kwargs),
          meta     |-> b.meta]

\* _create_field(field_name, metadata, for_model_type)
_create_field(field_name, metadata, for_model_type) ==
    FieldResult(field_name, metadata, for_model_type,
                VariantBranch(field_name, metadata, for_model_type))

\* The fields dict _generate_model_fields returns once _create_field ran on
\* every schema field (made): the fields not excluded, with the type read
\* from the metadata after the call, and for the table variant the
\* relationships; and the schema as the loop leaves it.
CollectFields(schema, for_model_type, made, rels) ==
    [fields |-> [n \in {m \in DOMAIN schema.fields : ~made[m].excluded} \cup rels |->
                    IF n \in rels
                    THEN [type |-> schema.relationships[n].type,
                          info |-> Relationship(schema.relationships[n].kwargs)]
                    ELSE [type |-> made[n].meta.field_type,
                          info |-> made[n].info]],
     schema |-> [schema EXCEPT !.fields = [n \in DOMAIN @ |-> made[n].meta]]]

\* _generate_model_fields without the loop over schema.relationships.
_generate_model_fields_without_relationships(schema, for_model_type) ==
    CollectFields(schema, for_model_type,
                  [n \in DOMAIN schema.fields |->
                      _create_field(n, schema.fields[n], for_model_type)],
                  {})

\* _generate_model_fields(for_model_type) on a schema
_generate_model_fields(schema, for_model_type) ==
    CollectFields(schema, for_model_type,
                  [n \in DOMAIN schema.fields |->
                      _create_field(n, schema.fields[n], for_model_type)],
                  IF for_model_type = "table" THEN DOMAIN schema.relationships ELSE {})

\* ----------------------------------------------------------- create_model

NoFields == [n \in {} |-> 0]

\* pydantic.create_model(name, __base__=base, **fields): a new class whose
\* fields are the base class's, overridden and extended by `fields`.
create_model(name, base_name, base_fields, fields, oid) ==
    [name   |-> name,
     oid    |-> oid,
     base   |-> base_name,
     fields |-> [n \in DOMAIN base_fields \cup DOMAIN fields |->
                    IF n \in DOMAIN fields THEN fields[n] ELSE base_fields[n]]]

\* self._<v>_model = create_model(name, __base__=..., **g.fields), after
\* g = _generate_model_fields ran on the factory F.
SetSlot(F, v, name, base_name, base_fields, g) ==
    [F EXCEPT !.schema = g.schema,
              !.made[v] = @ + 1,
              !.cache = (v :> create_model(name, base_name, base_fields, g.fields,
                                           <<v, F.made[v] + 1>>)) @@ @]

\* A variant whose __base__ is SQLModel.
DeriveRoot(F, v, suffix) ==
    SetSlot(F, v, <<F.schema.name, suffix>>, <<"SQLModel">>, NoFields,
            _generate_model_fields(F.schema, v))

\* A variant whose __base__ is the base model; F1 is the factory after
\* get_base_model().
DeriveFromBase(F1, v, suffix) ==
    SetSlot(F1, v, <<F1.schema.name, suffix>>, F1.cache["base"].name,
            F1.cache["base"].fields, _generate_model_fields(F1.schema, v))

\* ------------------------------------------------------------ get_*_model
\* Each operator is the factory after the call; the class the call returns
\* is the cache slot of the variant in that factory.

\* get_base_model without the test of the cache slot: the class is generated
\* again on every call.
get_base_model_uncached(F) == DeriveRoot(F, "base", "Base")

get_base_model(F) ==
    IF "base" \notin DOMAIN F.cache THEN DeriveRoot(F, "base", "Base") ELSE F

get_create_model(F) ==
    IF "create" \notin DOMAIN F.cache
    THEN DeriveFromBase(get_base_model(F), "create", "Create")
    ELSE F

get_update_model(F) ==
    IF "update" \notin DOMAIN F.cache
    THEN DeriveFromBase(get_base_model(F), "update", "Update")
    ELSE F

get_update_me_model(F) ==
    IF "update_me" \notin DOMAIN F.cache
    THEN DeriveRoot(F, "update_me", "UpdateMe")
    ELSE F

get_table_model(F) ==
    IF "table" \notin DOMAIN F.cache
    THEN DeriveFromBase(get_base_model(F), "table", "")
    ELSE F

\* fields['id'] = (uuid.UUID, Field()) after _generate_model_fields('public')
ForceId(g) ==
    [g EXCEPT !.fields = [n \in DOMAIN @ \cup {"id"} |->
        IF n = "id" THEN [type |-> T("UUID"), info |-> Field0] ELSE @[n]]]

\* F1 is the factory after get_base_model().
DerivePublic(F1) ==
    SetSlot(F1, "public", <<F1.schema.name, "Public">>, F1.cache["base"].name,
            F1.cache["base"].fields,
            ForceId(_generate_model_fields(F1.schema, "public")))

get_public_model(F) ==
    IF "public" \notin DOMAIN F.cache
    THEN DerivePublic(get_base_model(F))
    ELSE F

\* F1 is the factory after get_public_model().
DeriveListPublic(F1) ==
    SetSlot(F1, "list_public", <<F1.schema.name, "sPublic">>, <<"SQLModel">>,
            NoFields,
            [fields |-> [data  |-> [type |-> T("List[Public]"), info |-> Field0],
                         count |-> [type |-> T("int"), info |-> Field0]],
             schema |-> F1.schema])

get_list_public_model(F) ==
    IF "list_public" \notin DOMAIN F.cache
    THEN DeriveListPublic(get_public_model(F))
    ELSE F

\* factory.get_<v>_model()
get_model(F, v) ==
    CASE v = "base"        -> get_base_model(F)
      [] v = "create"      -> get_create_model(F)
      [] v = "update"      -> get_update_model(F)
      [] v = "update_me"   -> get_update_me_model(F)
      [] v = "table"       -> get_table_model(F)
      [] v = "public"      -> get_public_model(F)
      [] v = "list_public" -> get_list_public_model(F)

\* The dict literal of get_all_models with its last entry left out.
AllModelsOrder_without_list ==
    <<"base", "create", "update", "update_me", "table", "public">>

\* The keys of the dict literal of get_all_models, in evaluation order.
AllModelsOrder ==
    <<"base", "create", "update", "update_me", "table", "public", "list_public">>

RECURSIVE GetInOrder(_, _)
GetInOrder(F, order) ==
    IF order = <<>> THEN F
    ELSE GetInOrder(get_model(F, Head(order)), Tail(order))

\* get_all_models(): the seven getters in the order of the dict literal.
get_all_models(F) == GetInOrder(F, AllModelsOrder)

\* --------------------------------------------------- ModelFactoryRegistry

\* Names looked up in the registry, and those factories are registered under
\* ("Order" is never registered).
EntityNames == {"User", "Item", "Order"}

RegisteredNames == {"User", "Item"}

NoModels == [v \in {} |-> <<"None", 0>>]

\* The outcome of the last call: the exception raised ("" when none) with
\* its message, the identity of the object returned and, for a call that
\* returns the dict of all models, the identity of the class under each key.
Outcome(op, arg, raised, msg, value, models) ==
    [op |-> op, arg |-> arg, raised |-> raised, msg |-> msg,
     value |-> value, models |-> models]

Returned(op, arg, value) == Outcome(op, arg, "", <<>>, value, NoModels)

\* get_factory without the membership test: cls._factories[name] raises
\* KeyError for a name that is not a key.
get_factory_unchecked(reg, name) ==
    IF name \notin DOMAIN reg
    THEN [raised |-> "KeyError", msg |-> <<name>>, value |-> <<"None", 0>>]
    ELSE [raised |-> "", msg |-> <<>>, value |-> <<"factory", reg[name]>>]

\* ModelFactoryRegistry.get_factory(name) on the map reg: the exception it
\* raises or the factory it returns.
get_factory(reg, name) ==
    IF name \notin DOMAIN reg
    THEN [raised |-> "ValueError",
          msg    |-> <<"No factory registered for ", name>>,
          value  |-> <<"None", 0>>]
    ELSE [raised |-> "", msg |-> <<>>, value |-> <<"factory", reg[name]>>]

\* ModelFactoryRegistry.register(name, factory) on the map reg.
register(reg, name, factory) ==
    [n \in DOMAIN reg \cup {name} |-> IF n = name THEN factory ELSE reg[n]]

\* The dict get_all_models returns, by the identity of its values.
AllModels(F) ==
    [v \in {AllModelsOrder[i] : i \in DOMAIN AllModelsOrder} |-> F.cache[v].oid]

\* ---------------------------------------------------------------- actions

\* factory.get_<v>_model() on a constructed factory.
Get(f, v, F) ==
    /\ factories' = [factories EXCEPT ![f] = F]
    /\ result' = Returned(<<"get_model", v>>, <<"factory", f>>, F.cache[v].oid)
    /\ UNCHANGED <<registry, pre>>

GetBaseModel(f) == Get(f, "base", get_base_model(factories[f]))

GetCreateModel(f) == Get(f, "create", get_create_model(factories[f]))

GetUpdateModel(f) == Get(f, "update", get_update_model(factories[f]))

GetUpdateMeModel(f) == Get(f, "update_me", get_update_me_model(factories[f]))

GetTableModel(f) == Get(f, "table", get_table_model(factories[f]))

GetPublicModel(f) == Get(f, "public", get_public_model(factories[f]))

GetListPublicModel(f) == Get(f, "list_public", get_list_public_model(factories[f]))

\* The factory f is left as F and the dict of its seven models returned.
ReturnAll(op, arg, f, F) ==
    /\ factories' = [factories EXCEPT ![f] = F]
    /\ result' = Outcome(op, arg, "", <<>>, <<"dict", f>>, AllModels(F))
    /\ UNCHANGED <<registry, pre>>

GetAllModels(f) ==
    ReturnAll(<<"get_all_models">>, <<"factory", f>>, f,
              get_all_models(factories[f]))

\* SomeFactory(): a concrete factory builds its schema and calls
\* BaseModelFactory.__init__; a FieldMetadata call with a keyword the
\* constructor lacks raises TypeError and no factory exists afterwards.
NewFactory(s) ==
    IF Constructible(s)
    THEN /\ Len(factories) < MaxFactories
         /\ factories' = Append(factories, BaseModelFactory(ModelSchema(s)))
         /\ result' = Returned(<<"new", s>>, <<"schema", 0>>,
                               <<"factory", Len(factories) + 1>>)
         /\ UNCHANGED <<registry, pre>>
    ELSE /\ result' = Outcome(<<"new", s>>, <<"schema", 0>>, "TypeError",
                              <<"unexpected keyword argument">>,
                              <<"None", 0>>, NoModels)
         /\ UNCHANGED <<factories, registry, pre>>

\* ModelFactoryRegistry.register(name, factory)
Register(name, f) ==
    /\ registry' = register(registry, name, f)
    /\ result' = Returned(<<"register">>, <<name, f>>, <<"None", 0>>)
    /\ UNCHANGED <<factories, pre>>

\* A call that ends with the outcome r of get_factory.
Lookup(op, name, r) ==
    /\ result' = Outcome(op, <<name, 0>>, r.raised, r.msg, r.value, NoModels)
    /\ UNCHANGED <<factories, registry, pre>>

\* ModelFactoryRegistry.get_factory(name)
GetFactory(name) == Lookup(<<"get_factory">>, name, get_factory(registry, name))

\* get_all_models_for after factory = cls.get_factory(entity_name) ended as r.
AllModelsOf(name, r) ==
    IF r.raised # ""
    THEN Lookup(<<"get_all_models_for">>, name, r)
    ELSE ReturnAll(<<"get_all_models_for">>, <<name, 0>>, r.value[2],
                   get_all_models(factories[r.value[2]]))

\* ModelFactoryRegistry.get_all_models_for(entity_name)
GetAllModelsFor(name) == AllModelsOf(name, get_factory(registry, name))

\* setup_model_factories(): constructs and registers UserModelFactory and
\* ItemModelFactory, then generates all models of both.  A constructor that
\* raises ends the call there, with what was registered before it kept.
SetupModelFactories ==
    LET raise == Outcome(<<"setup_model_factories">>, <<"", 0>>, "TypeError",
                         <<"unexpected keyword argument">>, <<"None", 0>>,
                         NoModels)
        u   == Len(factories) + 1
        i   == Len(factories) + 2
        U   == BaseModelFactory(ModelSchema("User"))
        I   == BaseModelFactory(ModelSchema("Item"))
        reg == register(register(registry, "User", u), "Item", i)
    IN  IF ~Constructible("User")
        THEN /\ result' = raise
             /\ UNCHANGED <<factories, registry, pre>>
        ELSE IF ~Constructible("Item")
        THEN /\ u <= MaxFactories
             /\ factories' = Append(factories, U)
             /\ registry' = register(registry, "User", u)
             /\ result' = raise
             /\ UNCHANGED pre
        ELSE /\ i <= MaxFactories
             /\ factories' = factories \o <<get_all_models(U), get_all_models(I)>>
             /\ registry' = reg
             /\ result' = Returned(<<"setup_model_factories">>, <<"", 0>>,
                                   <<"None", 0>>)
             /\ UNCHANGED pre

NoCall == Returned(<<"init">>, <<"", 0>>, <<"None", 0>>)

\* ------------------------------------------------------ backend_pre_start

\* max_tries = 60 * 5
max_tries == 60 * 5

\* stop_after_attempt(max_tries) with the number of the attempt that failed
\* one attempt late.
ShouldStop_after_one_more(attempt) == attempt > max_tries

\* stop=stop_after_attempt(max_tries): whether the retry loop gives up after
\* the attempt of this number failed.
ShouldStop(attempt) == attempt >= max_tries

\* The state of main() in backend_pre_start: where it is, the number of the
\* current attempt of init, the probes of the database made, whether one
\* succeeded, and whether "Service finished initializing" was logged.
PreStart0 ==
    [pc |-> "start", attempt |-> 0, probes |-> 0, succeeded |-> FALSE,
     finished |-> FALSE]

\* main(): logs "Initializing service" and calls init(engine), whose first
\* attempt begins.
MainStart ==
    /\ pre.pc = "start"
    /\ pre' = [pre EXCEPT !.pc = "attempt", !.attempt = 1]
    /\ UNCHANGED <<factories, registry, result>>

\* init: session.exec(select(1)) returns, and so does init.
ProbeSucceeds ==
    /\ pre.pc = "attempt"
    /\ pre' = [pre EXCEPT !.pc = "returned", !.probes = @ + 1,
                          !.succeeded = TRUE]
    /\ UNCHANGED <<factories, registry, result>>

\* init: the probe raises; init logs the error and raises it again.
ProbeFails ==
    /\ pre.pc = "attempt"
    /\ pre' = [pre EXCEPT !.pc = "failed", !.probes = @ + 1]
    /\ UNCHANGED <<factories, registry, result>>

\* retry: the attempt failed and the stop condition does not hold; after
\* wait_fixed(wait_seconds) the next attempt begins.
RetryAgain ==
    /\ pre.pc = "failed"
    /\ ~ShouldStop(pre.attempt)
    /\ pre' = [pre EXCEPT !.pc = "attempt", !.attempt = @ + 1]
    /\ UNCHANGED <<factories, registry, result>>

\* retry: the attempt failed and the stop condition holds; RetryError is
\* raised and leaves main().
RetryGivesUp ==
    /\ pre.pc = "failed"
    /\ ShouldStop(pre.attempt)
    /\ pre' = [pre EXCEPT !.pc = "raised"]
    /\ UNCHANGED <<factories, registry, result>>

\* main(): init returned; logs "Service finished initializing".
MainFinish ==
    /\ pre.pc = "returned"
    /\ pre' = [pre EXCEPT !.pc = "done", !.finished = TRUE]
    /\ UNCHANGED <<factories, registry, result>>

\* ---------------------------------------------------------- specifications

\* One factory, constructed from any schema FieldMetadata accepts, and every
\* order of get_*_model calls on it.
InitFactory ==
    /\ \E s \in ValidSchemas : factories = <<BaseModelFactory(ModelSchema(s))>>
    /\ registry = [n \in {} |-> 0]
    /\ result = NoCall
    /\ pre = PreStart0

NextFactory ==
    \/ \E f \in DOMAIN factories : GetBaseModel(f)
    \/ \E f \in DOMAIN factories : GetCreateModel(f)
    \/ \E f \in DOMAIN factories : GetUpdateModel(f)
    \/ \E f \in DOMAIN factories : GetUpdateMeModel(f)
    \/ \E f \in DOMAIN factories : GetTableModel(f)
    \/ \E f \in DOMAIN factories : GetPublicModel(f)
    \/ \E f \in DOMAIN factories : GetListPublicModel(f)
    \/ \E f \in DOMAIN factories : GetAllModels(f)

SpecFactory == InitFactory /\ [][NextFactory]_vars

\* The registry of a process: factories are constructed and registered,
\* looked up by name, and their models fetched as a bundle.
RegistrySchemas == {"User", "Item", "Account", "Task"}

InitRegistry ==
    /\ factories = <<>>
    /\ registry = [n \in {} |-> 0]
    /\ result = NoCall
    /\ pre = PreStart0

NextRegistry ==
    \/ \E s \in RegistrySchemas : NewFactory(s)
    \/ \E n \in RegisteredNames, f \in DOMAIN factories : Register(n, f)
    \/ \E n \in EntityNames : GetFactory(n)
    \/ \E n \in EntityNames : GetAllModelsFor(n)
    \/ SetupModelFactories

SpecRegistry == InitRegistry /\ [][NextRegistry]_vars

\* main() of backend_pre_start.  The process runs on until main() returns
\* or raises, and every probe of the database returns or raises.
InitPreStart ==
    /\ factories = <<>>
    /\ registry = [n \in {} |-> 0]
    /\ result = NoCall
    /\ pre = PreStart0

NextPreStart ==
    \/ MainStart
    \/ ProbeSucceeds
    \/ ProbeFails
    \/ RetryAgain
    \/ RetryGivesUp
    \/ MainFinish

SpecPreStart == InitPreStart /\ [][NextPreStart]_vars /\ WF_vars(NextPreStart)

\* ----------------------------------------------------------------- claims

\* The class in cache slot v of factory f, and its fields (inherited ones
\* included).
Slot(f, v) == factories[f].cache[v]

Derived(f, v) == v \in DOMAIN factories[f].cache

\* The schema of factory f as it was constructed.
Constructed(f) == ModelSchema(factories[f].schema.name)

\* The fields of variant v when get_<v>_model is the first call made on a
\* newly constructed factory of the schema.
DerivedFirst(name, v) ==
    get_model(BaseModelFactory(ModelSchema(name)), v).cache[v].fields

FieldVariants == {"base", "create", "update", "update_me", "table", "public"}

\* C1: for every factory and every variant v of base, create, update,
\* update_me, table, public, the fields (names, types, constraints) that
\* get_<v>_model derives are the same whatever get_*_model calls were made on
\* the factory before: they equal those derived when the call is the first.
C1_OrderIndependent ==
    \A f \in DOMAIN factories : \A v \in FieldVariants :
        Derived(f, v) => Slot(f, v).fields = DerivedFirst(factories[f].schema.name, v)

\* C2: the public variant, inherited fields counted, has no field password
\* and no field hashed_password, and always has the field id.
C2_PublicHidesPasswords ==
    \A f \in DOMAIN factories :
        Derived(f, "public") =>
            /\ "password" \notin DOMAIN Slot(f, "public").fields
            /\ "hashed_password" \notin DOMAIN Slot(f, "public").fields
            /\ "id" \in DOMAIN Slot(f, "public").fields

\* C3: the base variant excludes password, hashed_password and id and holds
\* every other schema field with its type unchanged; for the schema
\* {password, hashed_password, id, email} its field set is exactly {email}.
C3_BaseExcludes ==
    \A f \in DOMAIN factories :
        Derived(f, "base") =>
            /\ DOMAIN Slot(f, "base").fields =
                  DOMAIN Constructed(f).fields \ {"password", "hashed_password", "id"}
            /\ \A n \in DOMAIN Slot(f, "base").fields :
                  Slot(f, "base").fields[n].type = Constructed(f).fields[n].field_type
            /\ factories[f].schema.name = "Credential" =>
                  DOMAIN Slot(f, "base").fields = {"email"}

\* C4: every field of the update variant and of the update_me variant has an
\* optional type and the default None; none, id included, is left required.
C4_UpdateAllOptional ==
    \A f \in DOMAIN factories : \A v \in {"update", "update_me"} :
        Derived(f, v) =>
            \A n \in DOMAIN Slot(f, v).fields :
                /\ Slot(f, v).fields[n].type.opt
                /\ Slot(f, v).fields[n].info.default = "None"

\* C5: the update_me variant has none of the fields password, is_superuser,
\* hashed_password, id.
C5_UpdateMeExcludes ==
    \A f \in DOMAIN factories :
        Derived(f, "update_me") =>
            DOMAIN Slot(f, "update_me").fields
                \cap {"password", "is_superuser", "hashed_password", "id"} = {}

\* C6: the create variant, inherited fields counted, has none of the fields
\* hashed_password, id, owner_id, and each of its fields whose metadata is
\* nullable carries the metadata's declared default.
C6_CreateExcludes ==
    \A f \in DOMAIN factories :
        Derived(f, "create") =>
            /\ DOMAIN Slot(f, "create").fields
                  \cap {"hashed_password", "id", "owner_id"} = {}
            /\ \A n \in DOMAIN Slot(f, "create").fields \cap DOMAIN Constructed(f).fields :
                  Constructed(f).fields[n].nullable =>
                      Slot(f, "create").fields[n].info.default =
                          Constructed(f).fields[n].default

\* C7: once a cache slot of a factory is set, no later get_*_model or
\* get_all_models call replaces it, and a get_<v>_model call on a set slot
\* returns the very class that is in the slot (same identity).
C7_CachedIdentity ==
    [][\A f \in DOMAIN factories : \A v \in DOMAIN factories[f].cache :
          /\ v \in DOMAIN factories'[f].cache
          /\ factories'[f].cache[v] = factories[f].cache[v]
          /\ (result'.op = <<"get_model", v>> /\ result' # result) =>
                result'.value = factories[f].cache[v].oid]_vars

\* C7 witness: get_base_model was called after the create variant (whose
\* derivation had already called get_base_model) and returned the first class.
C7_Witness ==
    /\ result.op = <<"get_model", "base">>
    /\ Derived(1, "create")
    /\ result.value = <<"base", 1>>
    /\ Slot(1, "base").oid = <<"base", 1>>

\* C8: no derivation operation changes the schema: every FieldMetadata of a
\* factory's schema, field_type included, equals its value at construction.
C8_SchemaUnchanged ==
    \A f \in DOMAIN factories : factories[f].schema = Constructed(f)

\* C9: once a factory is registered under a name, no later step replaces the
\* factory registered under that name.
C9_RegisteredOnce ==
    [][\A n \in DOMAIN registry :
          n \in DOMAIN registry' /\ registry'[n] = registry[n]]_vars

LookupOps == {<<"get_factory">>, <<"get_all_models_for">>}

\* C10: get_factory or get_all_models_for on a name that is not registered
\* raises the error with message "No factory registered for <name>", creates
\* no factory and leaves the registry unchanged; on a registered name it
\* never raises that error.
C10_LookupError ==
    [][\A n \in EntityNames :
          (result'.op \in LookupOps /\ result'.arg = <<n, 0>>) =>
              IF n \notin DOMAIN registry
              THEN /\ result'.raised = "ValueError"
                   /\ result'.msg = <<"No factory registered for ", n>>
                   /\ factories' = factories
                   /\ registry' = registry
              ELSE result'.raised # "ValueError"]_vars

\* C10 witness: with User registered, looking up Order raised the error.
C10_Witness ==
    /\ "User" \in DOMAIN registry
    /\ result.op = <<"get_factory">>
    /\ result.arg = <<"Order", 0>>
    /\ result.raised = "ValueError"
    /\ result.msg = <<"No factory registered for ", "Order">>

\* C11: get_all_models_for on a registered entity returns a dict whose keys
\* are exactly base, create, update, update_me, table, public, list_public,
\* each bound to the factory's cached class of that variant, and all seven
\* cache slots of the factory are set after the call.
C11_AllSevenModels ==
    \A n \in EntityNames :
        (result.op = <<"get_all_models_for">> /\ result.arg = <<n, 0>>
            /\ result.raised = "") =>
            /\ DOMAIN result.models = Variants
            /\ DOMAIN factories[result.value[2]].cache = Variants
            /\ \A v \in Variants :
                  result.models[v] = factories[result.value[2]].cache[v].oid

\* C11 witness: get_all_models_for("User") returned the dict of the factory
\* registered under User.
C11_Witness ==
    /\ "User" \in DOMAIN registry
    /\ result.op = <<"get_all_models_for">>
    /\ result.arg = <<"User", 0>>
    /\ result.value = <<"dict", registry["User"]>>
    /\ DOMAIN result.models = Variants

\* C12: the table variant includes every schema field, its id field is
\* marked primary key and has the default factory uuid4, and every
\* relationship of the schema is a field of it.
C12_TableVariant ==
    \A f \in DOMAIN factories :
        Derived(f, "table") =>
            /\ DOMAIN Constructed(f).fields \subseteq DOMAIN Slot(f, "table").fields
            /\ "id" \in DOMAIN Constructed(f).fields =>
                  /\ Slot(f, "table").fields["id"].info.primary_key
                  /\ Slot(f, "table").fields["id"].info.default_factory = "uuid4"
            /\ \A r \in DOMAIN Constructed(f).relationships :
                  /\ r \in DOMAIN Slot(f, "table").fields
                  /\ Slot(f, "table").fields[r].info.relationship
                  /\ Slot(f, "table").fields[r].info.back_populates =
                        Constructed(f).relationships[r].kwargs.back_populates

\* C12 witness: the table variant of the Account schema (User's fields) is
\* derived, with id as primary key and the relationship items.
C12_Witness ==
    /\ factories[1].schema.name = "Account"
    /\ Derived(1, "table")
    /\ Slot(1, "table").fields["id"].info.primary_key
    /\ Slot(1, "table").fields["items"].info.relationship
    /\ "hashed_password" \in DOMAIN Slot(1, "table").fields

\* Whether the table column SQLModel makes of a field admits NULL: the
\* nullable keyword of its Field when one was given, else whether the field
\* is no primary key and its type is Optional.
ColumnNullable(fld) ==
    IF fld.info.nullable # "Undefined"
    THEN fld.info.nullable = "True"
    ELSE ~fld.info.primary_key /\ fld.type.opt

\* C13: in the table variant every field whose metadata has a foreign key
\* gets that reference and a column nullability equal to the metadata's
\* nullable flag; owner_id of Item's schema (nullable=False) is non-nullable,
\* also when the table variant is derived after update or update_me.
C13_ForeignKeyNullability ==
    \A f \in DOMAIN factories :
        Derived(f, "table") =>
            \A n \in DOMAIN Constructed(f).fields :
                Constructed(f).fields[n].foreign_key # "None" =>
                    /\ Slot(f, "table").fields[n].info.foreign_key =
                          Constructed(f).fields[n].foreign_key
                    /\ ColumnNullable(Slot(f, "table").fields[n]) =
                          Constructed(f).fields[n].nullable

\* C14: setup_model_factories runs to completion: it raises nothing, and
\* after it both User and Item are registered with all seven models of each
\* generated.
C14_SetupCompletes ==
    result.op = <<"setup_model_factories">> =>
        /\ result.raised = ""
        /\ {"User", "Item"} \subseteq DOMAIN registry
        /\ \A n \in {"User", "Item"} :
              DOMAIN factories[registry[n]].cache = Variants

\* C15: init terminates: it probes the database at most max_tries = 300
\* times, returns at the first probe that succeeds without probing again,
\* ends with an error when all 300 probes failed, and main logs "Service
\* finished initializing" only after a probe succeeded.
C15_InitTerminates ==
    /\ [](/\ pre.probes <= 300
          /\ pre.pc = "raised" => (pre.probes = 300 /\ ~pre.succeeded)
          /\ pre.pc = "failed" => ~pre.succeeded
          /\ pre.finished => pre.succeeded)
    /\ [][pre.succeeded => pre'.probes = pre.probes]_vars
    /\ <>(pre.pc \in {"done", "raised"})

\* C15 witness: 299 probes failed, the 300th succeeded and main logged that
\* the service finished initializing.
C15_Witness ==
    /\ pre.pc = "done"
    /\ pre.probes = max_tries
    /\ pre.finished

====
